---------------------------- MODULE Spec2Model ----------------------------
(***************************************************************************)
(* Model of the decentered events tracker: the inbound-email handler       *)
(* (src/src/handlers/inbound.ts), the spreadsheet writer and its field     *)
(* formatters (src/src/handlers/lib/sheets.ts), the event normalizer       *)
(* (src/src/handlers/lib/events.ts), the extraction post-processing        *)
(* (src/src/handlers/lib/openai.ts) and the upload (src/src/handlers/lib/  *)
(* s3.ts).                                                                 *)
(*                                                                         *)
(* A JavaScript string is a sequence of one-character strings, so that     *)
(* trimming, case mapping and regular-expression matching are computed on  *)
(* the characters.  null and undefined are two sequences that are not      *)
(* strings of characters.                                                  *)
(***************************************************************************)
EXTENDS Integers, Sequences, FiniteSets, TLC

\* ------------------------------------------------------------------------
\* Bounds of the model
\* ------------------------------------------------------------------------
MaxFiles == 2    \* attachments of a request
MaxGroups == 3   \* groups of a direct addEventsToSpreadsheet call
MaxEvents == 2   \* events of one attachment in a direct call of the normalizer

\* ------------------------------------------------------------------------
\* JavaScript values and strings
\* ------------------------------------------------------------------------
NULL == <<"null">>
UNDEFINED == <<"undefined">>

\* !x for a string, null or undefined
Falsy(x) == x = NULL \/ x = UNDEFINED \/ x = <<>>

\* a || b
Or(a, b) == IF Falsy(a) THEN b ELSE a

Digits == <<"0", "1", "2", "3", "4", "5", "6", "7", "8", "9">>
LowerChars == <<"a", "b", "c", "d", "e", "f", "g", "h", "i", "j", "k", "l", "m",
                "n", "o", "p", "q", "r", "s", "t", "u", "v", "w", "x", "y", "z">>
UpperChars == <<"A", "B", "C", "D", "E", "F", "G", "H", "I", "J", "K", "L", "M",
                "N", "O", "P", "Q", "R", "S", "T", "U", "V", "W", "X", "Y", "Z">>

IsDigit(c) == \E d \in 1..10 : Digits[d] = c
DigitVal(c) == (CHOOSE d \in 1..10 : Digits[d] = c) - 1
IsSpace(c) == c \in {" ", "\t", "\n"}

UpperChar(c) ==
  IF \E k \in 1..26 : LowerChars[k] = c
  THEN UpperChars[CHOOSE k \in 1..26 : LowerChars[k] = c]
  ELSE c

LowerChar(c) ==
  IF \E k \in 1..26 : UpperChars[k] = c
  THEN LowerChars[CHOOSE k \in 1..26 : UpperChars[k] = c]
  ELSE c

toUpperCase(s) == [k \in 1..Len(s) |-> UpperChar(s[k])]
toLowerCase(s) == [k \in 1..Len(s) |-> LowerChar(s[k])]

trim(s) ==
  LET ns == {k \in 1..Len(s) : ~IsSpace(s[k])}
  IN IF ns = {} THEN <<>>
     ELSE SubSeq(s, CHOOSE k \in ns : \A j \in ns : k <= j,
                    CHOOSE k \in ns : \A j \in ns : k >= j)

startsWith(s, c) == Len(s) >= 1 /\ s[1] = c

\* String(n) for a natural number n
RECURSIVE NumToStr(_)
NumToStr(n) ==
  IF n < 10 THEN <<Digits[n + 1]>>
  ELSE NumToStr(n \div 10) \o <<Digits[(n % 10) + 1]>>

\* Number.parseInt of a sequence of digits
RECURSIVE StrToNum(_)
StrToNum(ds) ==
  IF ds = <<>> THEN 0
  ELSE 10 * StrToNum(SubSeq(ds, 1, Len(ds) - 1)) + DigitVal(ds[Len(ds)])

\* s.padStart(2, '0')
padStart2(s) == IF Len(s) < 2 THEN <<"0">> \o s ELSE s

AllDigits(s) == \A k \in 1..Len(s) : IsDigit(s[k])

\* ------------------------------------------------------------------------
\* Calendar arithmetic behind JavaScript's Date
\* ------------------------------------------------------------------------
IsLeap(y) == (y % 4 = 0 /\ y % 100 # 0) \/ y % 400 = 0

DaysInMonth(y, m) ==
  IF m = 2 THEN (IF IsLeap(y) THEN 29 ELSE 28)
  ELSE IF m \in {4, 6, 9, 11} THEN 30 ELSE 31

\* a day number past the end of its month rolls into the next month
RollOver(y, m, d) ==
  IF d <= DaysInMonth(y, m) THEN [y |-> y, m |-> m, d |-> d]
  ELSE IF m = 12 THEN [y |-> y + 1, m |-> 1, d |-> d - DaysInMonth(y, m)]
  ELSE [y |-> y, m |-> m + 1, d |-> d - DaysInMonth(y, m)]

PrevDay(c) ==
  IF c.d > 1 THEN [c EXCEPT !.d = c.d - 1]
  ELSE IF c.m > 1 THEN [y |-> c.y, m |-> c.m - 1, d |-> DaysInMonth(c.y, c.m - 1)]
  ELSE [y |-> c.y - 1, m |-> 12, d |-> 31]

NextDay(c) == RollOver(c.y, c.m, c.d + 1)

\* ------------------------------------------------------------------------
\* sheets.ts: field formatters
\* ------------------------------------------------------------------------

\* new Date(dateString) followed by getFullYear/getMonth/getDate in a
\* process whose local time is UTC + offset hours.  The ISO forms the
\* extraction step and the tests use are parsed: a date-only form is UTC
\* midnight, a date-time form without offset is local time.  The result is
\* the local calendar day, or InvalidDate (getTime() is NaN).
InvalidDate == [y |-> 0, m |-> 0, d |-> 0]

IsoDateAt(s) ==
  /\ Len(s) >= 10
  /\ AllDigits(SubSeq(s, 1, 4)) /\ s[5] = "-"
  /\ AllDigits(SubSeq(s, 6, 7)) /\ s[8] = "-"
  /\ AllDigits(SubSeq(s, 9, 10))
  /\ StrToNum(SubSeq(s, 6, 7)) \in 1..12
  /\ StrToNum(SubSeq(s, 9, 10)) \in 1..31

IsoTimeAt(s) ==
  /\ Len(s) = 19 /\ s[11] = "T"
  /\ AllDigits(SubSeq(s, 12, 13)) /\ s[14] = ":"
  /\ AllDigits(SubSeq(s, 15, 16)) /\ s[17] = ":"
  /\ AllDigits(SubSeq(s, 18, 19))
  /\ StrToNum(SubSeq(s, 12, 13)) \in 0..23
  /\ StrToNum(SubSeq(s, 15, 16)) \in 0..59
  /\ StrToNum(SubSeq(s, 18, 19)) \in 0..59

NewDateLocalDay(s, offset) ==
  IF ~IsoDateAt(s) THEN InvalidDate
  ELSE LET civil == RollOver(StrToNum(SubSeq(s, 1, 4)), StrToNum(SubSeq(s, 6, 7)),
                             StrToNum(SubSeq(s, 9, 10)))
       IN IF Len(s) = 10
          THEN (IF offset < 0 THEN PrevDay(civil) ELSE civil)
          ELSE IF IsoTimeAt(s) THEN civil
          ELSE InvalidDate

formatDate(dateString, offset) ==
  IF Falsy(dateString) THEN <<>>
  ELSE LET date == NewDateLocalDay(dateString, offset)
       IN IF date = InvalidDate THEN dateString
          ELSE padStart2(NumToStr(date.m)) \o <<"/">> \o padStart2(NumToStr(date.d))
               \o <<"/">> \o NumToStr(date.y)

\* number of hour digits of a match of /\d{1,2}:\d{2}/ that starts at p,
\* 0 when there is none
TimeMatchAt(s, p) ==
  IF /\ p + 4 <= Len(s) /\ IsDigit(s[p]) /\ IsDigit(s[p + 1]) /\ s[p + 2] = ":"
     /\ IsDigit(s[p + 3]) /\ IsDigit(s[p + 4])
  THEN 2
  ELSE IF /\ p + 3 <= Len(s) /\ IsDigit(s[p]) /\ s[p + 1] = ":"
          /\ IsDigit(s[p + 2]) /\ IsDigit(s[p + 3])
  THEN 1
  ELSE 0

\* /\d{1,2}:\d{2}\s*(AM|PM)/i matches starting at p
AmPmMatchAt(s, p) ==
  /\ TimeMatchAt(s, p) > 0
  /\ LET q == p + TimeMatchAt(s, p) + 3
         rest == {k \in q..Len(s) : ~IsSpace(s[k])}
     IN /\ rest # {}
        /\ LET k == CHOOSE j \in rest : \A i \in rest : j <= i
           IN /\ k + 1 <= Len(s)
              /\ UpperChar(s[k]) \in {"A", "P"}
              /\ UpperChar(s[k + 1]) = "M"

formatTime(timeString) ==
  IF Falsy(timeString) THEN <<>>
  ELSE LET time == trim(timeString)
           hits == {p \in 1..Len(time) : TimeMatchAt(time, p) > 0}
       IN IF \E p \in 1..Len(time) : AmPmMatchAt(time, p)
          THEN toUpperCase(time)
          ELSE IF hits # {}
          THEN LET p == CHOOSE j \in hits : \A i \in hits : j <= i
                   n == TimeMatchAt(time, p)
                   hour24 == StrToNum(SubSeq(time, p, p + n - 1))
                   minutes == SubSeq(time, p + n + 1, p + n + 2)
                   ampm == IF hour24 >= 12 THEN <<"P", "M">> ELSE <<"A", "M">>
                   hours == IF hour24 = 0 THEN 12
                            ELSE IF hour24 > 12 THEN hour24 - 12 ELSE hour24
               IN NumToStr(hours) \o <<":">> \o minutes \o <<" ">> \o ampm
          ELSE time

\* the first match of /(\d+(?:\.\d{2})?)/ in s, <<>> when there is none
NumMatch(s) ==
  LET ds == {k \in 1..Len(s) : IsDigit(s[k])}
  IN IF ds = {} THEN <<>>
     ELSE LET p == CHOOSE j \in ds : \A i \in ds : j <= i
              ends == {k \in p..Len(s) : \A i \in p..k : IsDigit(s[i])}
              r == CHOOSE j \in ends : \A i \in ends : j >= i
          IN IF /\ r + 3 <= Len(s) /\ s[r + 1] = "."
                /\ IsDigit(s[r + 2]) /\ IsDigit(s[r + 3])
             THEN SubSeq(s, p, r + 3)
             ELSE SubSeq(s, p, r)

Free == <<"F", "r", "e", "e">>

formatCost(costString) ==
  IF Falsy(costString) THEN Free
  ELSE LET cost == trim(toLowerCase(costString))
       IN IF cost = <<"f", "r", "e", "e">> \/ cost = <<"0">> \/ cost = <<"$", "0">>
          THEN Free
          ELSE IF startsWith(cost, "$") THEN costString
          ELSE IF NumMatch(cost) # <<>> THEN <<"$">> \o NumMatch(cost)
          ELSE Or(costString, Free)

\* formatEventForSpreadsheet with the date taken from endDay
formatEventForSpreadsheetEndDay(event, s3Url, offset) ==
  << formatDate(event.endDay, offset),
     Or(event.title, <<>>),
     Or(event.type, <<>>),
     formatTime(event.startTime),
     formatTime(event.endTime),
     Or(event.location, <<>>),
     Or(event.address, <<>>),
     Or(event.description, <<>>),
     formatCost(event.cost),
     s3Url >>

\* the row of one event: the FormattedEventRow, laid out as the array of
\* ten columns that the append call receives
formatEventForSpreadsheet(event, s3Url, offset) ==
  << formatDate(event.startDay, offset),
     Or(event.title, <<>>),
     Or(event.type, <<>>),
     formatTime(event.startTime),
     formatTime(event.endTime),
     Or(event.location, <<>>),
     Or(event.address, <<>>),
     Or(event.description, <<>>),
     formatCost(event.cost),
     s3Url >>

\* ------------------------------------------------------------------------
\* events.ts: the event normalizer
\* ------------------------------------------------------------------------

\* date-fns parse(s, 'HH:mm', new Date()): each of HH and mm takes one or
\* two digits, as many as there are; the ':' is literal; nothing but
\* whitespace may follow; hours are 0..23 and minutes 0..59.  The result is
\* the time of day, with ok FALSE for an Invalid Date.
LeadDigits(s) ==
  IF Len(s) >= 2 /\ IsDigit(s[1]) /\ IsDigit(s[2]) THEN 2
  ELSE IF Len(s) >= 1 /\ IsDigit(s[1]) THEN 1
  ELSE 0

parseHHmm(s) ==
  LET nh == LeadDigits(s)
      afterH == SubSeq(s, nh + 1, Len(s))
      afterC == SubSeq(afterH, 2, Len(afterH))
      nm == LeadDigits(afterC)
      tail == SubSeq(afterC, nm + 1, Len(afterC))
      h == StrToNum(SubSeq(s, 1, nh))
      m == StrToNum(SubSeq(afterC, 1, nm))
  IN IF /\ nh > 0 /\ startsWith(afterH, ":") /\ nm > 0
        /\ trim(tail) = <<>> /\ h \in 0..23 /\ m \in 0..59
     THEN [ok |-> TRUE, h |-> h, m |-> m]
     ELSE [ok |-> FALSE, h |-> 0, m |-> 0]

\* addHours3HHmm with the three hours added to the hour field alone
addHours3NoWrap(t) ==
  padStart2(NumToStr(t.h + 3)) \o <<":">> \o padStart2(NumToStr(t.m))

\* format(addHours(t, 3), 'HH:mm'), on a day without a change of the
\* local clock
addHours3HHmm(t) ==
  padStart2(NumToStr((t.h + 3) % 24)) \o <<":">> \o padStart2(NumToStr(t.m))

\* normalizeEvent with the operands of the two day fills exchanged
normalizeEventSwapped(event) ==
  LET startDateTime == parseHHmm(event.startTime)
      endTime == IF Falsy(event.endTime) /\ ~Falsy(event.startTime) /\ startDateTime.ok
                 THEN addHours3HHmm(startDateTime)
                 ELSE event.endTime
  IN [event EXCEPT !.startDay = Or(event.endDay, event.startDay),
                   !.startTime = Or(event.startTime, event.endTime),
                   !.endDay = Or(event.startDay, event.endDay),
                   !.endTime = endTime]

\* normalizeEvent with the operands of the startTime fill exchanged
normalizeEventStartFromEnd(event) ==
  LET startDateTime == parseHHmm(event.startTime)
      endTime == IF Falsy(event.endTime) /\ ~Falsy(event.startTime) /\ startDateTime.ok
                 THEN addHours3HHmm(startDateTime)
                 ELSE event.endTime
  IN [event EXCEPT !.startDay = Or(event.startDay, event.endDay),
                   !.startTime = Or(event.endTime, event.startTime),
                   !.endDay = Or(event.endDay, event.startDay),
                   !.endTime = endTime]

\* what format() throws for an Invalid Date
RangeError == [isError |-> TRUE, message |-> "Invalid time value"]

\* normalizeEvent without the try/catch around the computation of endTime
normalizeEventNoCatch(event) ==
  LET startDateTime == parseHHmm(event.startTime)
      endTime == IF Falsy(event.endTime) /\ ~Falsy(event.startTime) /\ startDateTime.ok
                 THEN addHours3HHmm(startDateTime)
                 ELSE event.endTime
  IN IF Falsy(event.endTime) /\ ~Falsy(event.startTime) /\ ~startDateTime.ok
     THEN RangeError
     ELSE [event EXCEPT !.startDay = Or(event.startDay, event.endDay),
                        !.startTime = Or(event.startTime, event.endTime),
                        !.endDay = Or(event.endDay, event.startDay),
                        !.endTime = endTime]

\* normalizeEvent without the spread of the event into the result
normalizeEventNoSpread(event) ==
  LET startDateTime == parseHHmm(event.startTime)
      endTime == IF Falsy(event.endTime) /\ ~Falsy(event.startTime) /\ startDateTime.ok
                 THEN addHours3HHmm(startDateTime)
                 ELSE event.endTime
  IN [startDay |-> Or(event.startDay, event.endDay),
      startTime |-> Or(event.startTime, event.endTime),
      endDay |-> Or(event.endDay, event.startDay),
      endTime |-> endTime]

\* normalizeEvent with endDay returned as given
normalizeEventEndDayAsGiven(event) ==
  LET startDateTime == parseHHmm(event.startTime)
      endTime == IF Falsy(event.endTime) /\ ~Falsy(event.startTime) /\ startDateTime.ok
                 THEN addHours3HHmm(startDateTime)
                 ELSE event.endTime
  IN [event EXCEPT !.startDay = Or(event.startDay, event.endDay),
                   !.startTime = Or(event.startTime, event.endTime),
                   !.endTime = endTime]

normalizeEvent(event) ==
  LET startDateTime == parseHHmm(event.startTime)
      endTime == IF Falsy(event.endTime) /\ ~Falsy(event.startTime) /\ startDateTime.ok
                 THEN addHours3HHmm(startDateTime)
                 ELSE event.endTime
  IN [event EXCEPT !.startDay = Or(event.startDay, event.endDay),
                   !.startTime = Or(event.startTime, event.endTime),
                   !.endDay = Or(event.endDay, event.startDay),
                   !.endTime = endTime]

\* the events of one attachment normalized one after the other; an exception
\* of one call ends the loop with the events before it
NormalizeEach(events) ==
  LET results == [k \in 1..Len(events) |-> normalizeEvent(events[k])]
      thrown == {k \in 1..Len(events) : "isError" \in DOMAIN results[k]}
  IN IF thrown = {}
     THEN [threw |-> FALSE, events |-> results]
     ELSE [threw |-> TRUE,
           events |-> SubSeq(results, 1, (CHOOSE k \in thrown : \A j \in thrown : k <= j) - 1)]

\* ------------------------------------------------------------------------
\* openai.ts: what extractEvents does to the model's response
\* ------------------------------------------------------------------------
\* extractEvents with endDay taken from startDay for every event
extractEventsAlwaysStartDay(response) ==
  [k \in 1..Len(response) |-> [response[k] EXCEPT !.endDay = response[k].startDay]]

extractEvents(response) ==
  [k \in 1..Len(response) |->
     [response[k] EXCEPT !.endDay = Or(response[k].endDay, response[k].startDay)]]

\* ------------------------------------------------------------------------
\* s3.ts: the storage key and the URL of an uploaded file
\* ------------------------------------------------------------------------
s3Key(filename) == <<"i", "m", "a", "g", "e", "s", "/">> \o filename

\* https://<S3_BUCKET>.s3.<REGION>.amazonaws.com/<key>; the host part is one
\* opaque piece of the string
uploadToS3Url(filename) == <<"https://bucket.s3.region.amazonaws.com/">> \o s3Key(filename)

\* ------------------------------------------------------------------------
\* Sample data: strings, the events a model response can hold, file names
\* ------------------------------------------------------------------------
D0315 == <<"2", "0", "2", "5", "-", "0", "3", "-", "1", "5">>
D0301 == <<"2", "0", "2", "5", "-", "0", "3", "-", "0", "1">>
T1900 == <<"1", "9", ":", "0", "0">>
T2200 == <<"2", "2", ":", "0", "0">>
Cost25 == <<"$", "2", "5">>

Ev(title, startDay, startTime, endDay, endTime, cost) ==
  [title |-> title, address |-> <<"1", " ", "S", "t">>, location |-> <<"S", "F">>,
   type |-> <<>>, startDay |-> startDay, startTime |-> startTime,
   description |-> <<"x">>, cost |-> cost, endDay |-> endDay, endTime |-> endTime]

evA == Ev(<<"A">>, D0315, T1900, NULL, NULL, NULL)
evB == Ev(<<"B">>, NULL, NULL, D0301, T2200, Cost25)
evC == Ev(<<"C">>, D0301, T1900, D0315, T2200, <<"2", "0">>)
\* an event whose start time is not HH:mm
evBad == Ev(<<"X">>, D0315, <<"7", "p", "m">>, NULL, NULL, NULL)

\* the lists of at most n elements of S
SeqsUpTo(S, n) == UNION {[1..k -> S] : k \in 0..n}

\* the model responses an extraction can get
Responses == {<<>>, <<evA>>, <<evB, evA>>}

\* the groups a direct call of addEventsToSpreadsheet is given
Ref1 == <<"r", "1">>
Ref2 == <<"r", "2">>
GroupEventLists == {<<>>, <<evA, evB>>, <<evC>>}
Refs == {UNDEFINED, Ref1, Ref2}
Groups == [events : GroupEventLists, s3Url : Refs]

\* file.filename of the i-th parsed file: the parts of a request either
\* have no name (undefined) or have names of their own
FileKinds == {"unnamed", "named"}
FileNameOf(kind, i) == IF kind = "unnamed" THEN UNDEFINED ELSE <<"f">> \o NumToStr(i)

\* offsets of local time from UTC, in hours; an AWS Lambda process runs in UTC
TZOffsets == {-8, 0, 9}
LambdaTZ == {0}

SpreadsheetIds == {UNDEFINED, <<>>, <<"i", "d">>}

\* what the multipart parser and the append call can throw
ParserErrors == {[isError |-> TRUE, message |-> "Parser error"],
                 [isError |-> FALSE, message |-> "string error"]}
AppendErrors == {[isError |-> TRUE, message |-> "quota"],
                 [isError |-> TRUE, message |-> "network"]}
NoError == [isError |-> FALSE, message |-> ""]
ConfigError == [isError |-> TRUE,
                message |-> "GOOGLE_SPREADSHEET_ID environment variable not set"]

\* ------------------------------------------------------------------------
\* State
\* ------------------------------------------------------------------------
VARIABLES
  \* environment and request
  spreadsheetId,  \* process.env.GOOGLE_SPREADSHEET_ID
  tz,             \* offset of the process's local time from UTC, in hours
  body,           \* event.body
  \* parseSendgridInbound
  pc,             \* "start", "parsing", "tasks", "done"
  files,          \* parsedData.files ([] also stands for an absent list)
  attachments,    \* the parsedAttachment of each file: filename, s3Url
  upload,         \* each upload promise: "none", "pending", "resolved", "rejected"
  task,           \* each map callback: "none", "extracting", "appending", "returned"
  extraction,     \* each extractEvents call: st "none", "pending", "ok", "failed"
  addCalls,       \* the calls of addEventsToSpreadsheet, with their arguments
  addOutcome,     \* how each attachment's addEventsToSpreadsheet call ended
  appendCalls,    \* the calls of sheets.spreadsheets.values.append
  sheet,          \* the rows of the spreadsheet
  successCount,
  parseCalls,     \* number of calls of parser.parse
  parsed,         \* how parser.parse settled: st "none", "rejected", "resolved";
                  \* envelope: how JSON.parse of its envelope field went
  uploadCalls,    \* the calls of uploadToS3: attachment and storage key
  response,       \* the APIGatewayProxyResult; statusCode 0 before the return
  \* a direct call of addEventsToSpreadsheet (either revision in sheets.ts)
  variant,        \* "flat" (events, s3Url) or "groups" (eventGroups)
  sArgs,          \* the arguments: list of groups; the flat call has one group
  sPc,            \* "idle", "start", "loop", "check", "append", "returned", "thrown"
  sIdx,           \* the group the loop is at
  allFormattedEvents,
  formatCalls,    \* number of formatEventForSpreadsheet calls so far
  formatCallsAtCheck, \* formatCalls when the identifier was checked, -1 before
  sAppendCalls,   \* the values of each append call
  sAppendError,   \* the error the append call failed with
  sThrown,        \* the error addEventsToSpreadsheet failed with
  \* a direct call of one of the exported pure functions
  fnName,         \* the function called, "none" when there is no such call
  fnArg,          \* its arguments, as a record
  fnPc,           \* "idle", "called", "returned", "reapplied"
  fnRet,          \* the value returned
  fnPrev          \* the value the call before returned, when the function is
                  \* called again on its own result

envVars == <<spreadsheetId, tz, body>>
handlerVars == <<pc, files, attachments, upload, task, extraction, addCalls,
                 addOutcome, appendCalls, sheet, successCount, parseCalls,
                 parsed, uploadCalls, response>>
sheetsVars == <<variant, sArgs, sPc, sIdx, allFormattedEvents, formatCalls,
                formatCallsAtCheck, sAppendCalls, sAppendError, sThrown>>
fnVars == <<fnName, fnArg, fnPc, fnRet, fnPrev>>
vars == <<envVars, handlerVars, sheetsVars, fnVars>>

Atts == 1..Len(files)

NoResponse == [statusCode |-> 0, body |-> {}]

HandlerIdle ==
  /\ pc = "start"
  /\ files = <<>>
  /\ attachments = <<>>
  /\ upload = <<>>
  /\ task = <<>>
  /\ extraction = <<>>
  /\ addCalls = <<>>
  /\ addOutcome = <<>>
  /\ appendCalls = <<>>
  /\ sheet = <<>>
  /\ successCount = 0
  /\ parseCalls = 0
  /\ parsed = [st |-> "none", error |-> NoError, envelope |-> "none"]
  /\ uploadCalls = <<>>
  /\ response = NoResponse

SheetsIdle ==
  /\ variant = "flat"
  /\ sArgs = <<>>
  /\ sPc = "idle"
  /\ sIdx = 0
  /\ allFormattedEvents = <<>>
  /\ formatCalls = 0
  /\ formatCallsAtCheck = -1
  /\ sAppendCalls = <<>>
  /\ sAppendError = NoError
  /\ sThrown = NoError

NoArg == [none |-> TRUE]

FnIdle ==
  /\ fnName = "none"
  /\ fnArg = NoArg
  /\ fnPc = "idle"
  /\ fnRet = NoArg
  /\ fnPrev = NoArg

\* one inbound request
Init ==
  /\ spreadsheetId \in SpreadsheetIds
  /\ tz \in LambdaTZ
  /\ body \in {NULL, <<>>, <<"m">>}
  /\ HandlerIdle
  /\ SheetsIdle
  /\ FnIdle

\* ------------------------------------------------------------------------
\* sheets.ts, first revision: addEventsToSpreadsheet(events, s3Url)
\* ------------------------------------------------------------------------

\* FlatRows without the "|| ''" on the link
FlatRowsRawLink(events, s3Url, offset) ==
  [k \in 1..Len(events) |-> formatEventForSpreadsheet(events[k], s3Url, offset)]

\* the rows the flat revision builds from its arguments
FlatRows(events, s3Url, offset) ==
  [k \in 1..Len(events) |->
     formatEventForSpreadsheet(events[k], Or(s3Url, <<>>), offset)]

\* ------------------------------------------------------------------------
\* inbound.ts: parseSendgridInbound
\* ------------------------------------------------------------------------
Respond(statusCode, responseBody) ==
  /\ response' = [statusCode |-> statusCode, body |-> responseBody]
  /\ pc' = "done"

\* if (!event.body) return 400
NoBody ==
  /\ pc = "start"
  /\ Falsy(body)
  /\ Respond(400, {<<"error", "No body provided">>})
  /\ UNCHANGED <<files, attachments, upload, task, extraction, addCalls, addOutcome,
                 appendCalls, sheet, successCount, parseCalls, parsed, uploadCalls>>
  /\ UNCHANGED <<envVars, sheetsVars, fnVars>>

\* CallParse with the body tested against null only
CallParseNullOnly ==
  /\ pc = "start"
  /\ body # NULL
  /\ parseCalls' = parseCalls + 1
  /\ pc' = "parsing"
  /\ UNCHANGED <<files, attachments, upload, task, extraction, addCalls, addOutcome,
                 appendCalls, sheet, successCount, parsed, uploadCalls, response>>
  /\ UNCHANGED <<envVars, sheetsVars, fnVars>>

\* await parser.parse(eventToProcess)
CallParse ==
  /\ pc = "start"
  /\ ~Falsy(body)
  /\ parseCalls' = parseCalls + 1
  /\ pc' = "parsing"
  /\ UNCHANGED <<files, attachments, upload, task, extraction, addCalls, addOutcome,
                 appendCalls, sheet, successCount, parsed, uploadCalls, response>>
  /\ UNCHANGED <<envVars, sheetsVars, fnVars>>

\* Caught with error.message read from whatever was thrown
CaughtMessageAlways(error) ==
  Respond(500, {<<"error", "Failed to parse inbound email">>,
                <<"details", error.message>>})

\* the outer catch: 500 with the message of an Error, 'Unknown error' otherwise
Caught(error) ==
  Respond(500, {<<"error", "Failed to parse inbound email">>,
                <<"details", IF error.isError THEN error.message ELSE "Unknown error">>})

ParseReject(error) ==
  /\ pc = "parsing"
  /\ Caught(error)
  /\ UNCHANGED <<files, attachments, upload, task, extraction, addCalls, addOutcome,
                 appendCalls, sheet, successCount, parseCalls, uploadCalls>>
  /\ parsed' = [st |-> "rejected", error |-> error, envelope |-> "none"]
  /\ UNCHANGED <<envVars, sheetsVars, fnVars>>

\* the parser succeeds but JSON.parse of the envelope field throws
ParseResolveBadEnvelope ==
  /\ pc = "parsing"
  /\ Caught([isError |-> TRUE, message |-> "Unexpected token"])
  /\ UNCHANGED <<files, attachments, upload, task, extraction, addCalls, addOutcome,
                 appendCalls, sheet, successCount, parseCalls, uploadCalls>>
  /\ parsed' = [st |-> "resolved", error |-> NoError, envelope |-> "invalid"]
  /\ UNCHANGED <<envVars, sheetsVars, fnVars>>

Image == <<"i", "m", "a", "g", "e">>

\* the parser succeeds with the files fs.  Without files the handler
\* returns; otherwise the map callback of every file runs up to its first
\* await: it builds the parsedAttachment, starts the upload without
\* awaiting it and starts the extraction.
ParseResolve(fs) ==
  /\ pc = "parsing"
  /\ files' = fs
  /\ IF Len(fs) = 0
     THEN /\ Respond(200, {<<"message", "Email parsed successfully">>})
          /\ UNCHANGED <<attachments, upload, task, extraction, uploadCalls>>
     ELSE /\ pc' = "tasks"
          /\ attachments' = [i \in 1..Len(fs) |->
                               [filename |-> Or(fs[i].filename, Image),
                                s3Url |-> UNDEFINED]]
          /\ uploadCalls' = [i \in 1..Len(fs) |->
                               [att |-> i, key |-> s3Key(Or(fs[i].filename, Image))]]
          /\ upload' = [i \in 1..Len(fs) |-> "pending"]
          /\ task' = [i \in 1..Len(fs) |-> "extracting"]
          /\ extraction' = [i \in 1..Len(fs) |-> [st |-> "pending", events |-> <<>>]]
          /\ UNCHANGED response
  /\ addOutcome' = [i \in 1..Len(fs) |-> "none"]
  /\ UNCHANGED <<addCalls, appendCalls, sheet, successCount, parseCalls>>
  /\ parsed' = [st |-> "resolved", error |-> NoError, envelope |-> "valid"]
  /\ UNCHANGED <<envVars, sheetsVars, fnVars>>

\* UploadResolve with the URL written to every parsedAttachment
UploadResolveShared(i) ==
  /\ pc = "tasks"
  /\ upload[i] = "pending"
  /\ upload' = [upload EXCEPT ![i] = "resolved"]
  /\ attachments' = [j \in 1..Len(attachments) |->
                       [attachments[j] EXCEPT !.s3Url = uploadToS3Url(attachments[i].filename)]]
  /\ UNCHANGED <<pc, files, task, extraction, addCalls, addOutcome, appendCalls, sheet,
                 successCount, parseCalls, parsed, uploadCalls, response>>
  /\ UNCHANGED <<envVars, sheetsVars, fnVars>>

\* .then(s3Url => { parsedAttachment.s3Url = s3Url }).  An upload settles
\* while the handler runs: the process is frozen once the handler returned.
UploadResolve(i) ==
  /\ pc = "tasks"
  /\ upload[i] = "pending"
  /\ upload' = [upload EXCEPT ![i] = "resolved"]
  /\ attachments' = [attachments EXCEPT ![i].s3Url = uploadToS3Url(attachments[i].filename)]
  /\ UNCHANGED <<pc, files, task, extraction, addCalls, addOutcome, appendCalls, sheet,
                 successCount, parseCalls, parsed, uploadCalls, response>>
  /\ UNCHANGED <<envVars, sheetsVars, fnVars>>

\* .catch(s3Error => console.error(...))
UploadReject(i) ==
  /\ pc = "tasks"
  /\ upload[i] = "pending"
  /\ upload' = [upload EXCEPT ![i] = "rejected"]
  /\ UNCHANGED <<pc, files, attachments, task, extraction, addCalls, addOutcome,
                 appendCalls, sheet, successCount, parseCalls, parsed, uploadCalls, response>>
  /\ UNCHANGED <<envVars, sheetsVars, fnVars>>

\* the handler's call of addEventsToSpreadsheet for attachment i, up to the
\* await of the append call: the identifier check throws into the catch of
\* the map callback, otherwise the rows are built from the arguments and
\* the append call is made
CallAddEvents(i, arg1, arg2) ==
  /\ addCalls' = Append(addCalls, [att |-> i, arg1 |-> arg1, arg2 |-> arg2])
  /\ IF Falsy(spreadsheetId)
     THEN /\ addOutcome' = [addOutcome EXCEPT ![i] = "configError"]
          /\ task' = [task EXCEPT ![i] = "returned"]
          /\ UNCHANGED appendCalls
     ELSE /\ appendCalls' = Append(appendCalls,
                                   [att |-> i, rows |-> FlatRows(arg1, arg2, tz)])
          /\ task' = [task EXCEPT ![i] = "appending"]
          /\ UNCHANGED addOutcome

\* extractEvents resolves: events.events?.length > 0 decides the append
ExtractResolve(i, resp) ==
  /\ pc = "tasks"
  /\ task[i] = "extracting"
  /\ LET events == extractEvents(resp)
     IN /\ extraction' = [extraction EXCEPT ![i] = [st |-> "ok", events |-> events]]
        /\ IF Len(events) > 0
           THEN CallAddEvents(i, events, attachments[i].s3Url)
           ELSE /\ task' = [task EXCEPT ![i] = "returned"]
                /\ UNCHANGED <<addCalls, addOutcome, appendCalls>>
  /\ UNCHANGED <<pc, files, attachments, upload, sheet, successCount, parseCalls, parsed,
                 uploadCalls, response>>
  /\ UNCHANGED <<envVars, sheetsVars, fnVars>>

\* ExtractReject without the try/catch of the map callback: Promise.all
\* rejects and the outer catch answers
ExtractRejectAborts(i) ==
  /\ pc = "tasks"
  /\ task[i] = "extracting"
  /\ extraction' = [extraction EXCEPT ![i] = [st |-> "failed", events |-> <<>>]]
  /\ task' = [task EXCEPT ![i] = "returned"]
  /\ Respond(500, {<<"error", "Failed to parse inbound email">>,
                   <<"details", "Extraction failed">>})
  /\ UNCHANGED <<files, attachments, upload, addCalls, addOutcome, appendCalls,
                 sheet, successCount, parseCalls, parsed, uploadCalls>>
  /\ UNCHANGED <<envVars, sheetsVars, fnVars>>

\* extractEvents rejects: caught and logged by the map callback
ExtractReject(i) ==
  /\ pc = "tasks"
  /\ task[i] = "extracting"
  /\ extraction' = [extraction EXCEPT ![i] = [st |-> "failed", events |-> <<>>]]
  /\ task' = [task EXCEPT ![i] = "returned"]
  /\ UNCHANGED <<pc, files, attachments, upload, addCalls, addOutcome, appendCalls,
                 sheet, successCount, parseCalls, parsed, uploadCalls, response>>
  /\ UNCHANGED <<envVars, sheetsVars, fnVars>>

PendingRows(i) ==
  LET k == CHOOSE j \in 1..Len(appendCalls) : appendCalls[j].att = i
  IN appendCalls[k].rows

\* the append call of attachment i resolves; successCount++
AppendResolve(i) ==
  /\ pc = "tasks"
  /\ task[i] = "appending"
  /\ sheet' = sheet \o PendingRows(i)
  /\ successCount' = successCount + 1
  /\ addOutcome' = [addOutcome EXCEPT ![i] = "ok"]
  /\ task' = [task EXCEPT ![i] = "returned"]
  /\ UNCHANGED <<pc, files, attachments, upload, extraction, addCalls, appendCalls,
                 parseCalls, parsed, uploadCalls, response>>
  /\ UNCHANGED <<envVars, sheetsVars, fnVars>>

\* the append call of attachment i rejects: rethrown by
\* addEventsToSpreadsheet, caught and logged by the map callback
AppendReject(i) ==
  /\ pc = "tasks"
  /\ task[i] = "appending"
  /\ addOutcome' = [addOutcome EXCEPT ![i] = "appendError"]
  /\ task' = [task EXCEPT ![i] = "returned"]
  /\ UNCHANGED <<pc, files, attachments, upload, extraction, addCalls, appendCalls,
                 sheet, successCount, parseCalls, parsed, uploadCalls, response>>
  /\ UNCHANGED <<envVars, sheetsVars, fnVars>>

\* Promise.all resolves when every map callback has returned
Finish ==
  /\ pc = "tasks"
  /\ \A i \in Atts : task[i] = "returned"
  /\ Respond(200, {<<"message", "Email parsed successfully">>})
  /\ UNCHANGED <<files, attachments, upload, task, extraction, addCalls, addOutcome,
                 appendCalls, sheet, successCount, parseCalls, parsed, uploadCalls>>
  /\ UNCHANGED <<envVars, sheetsVars, fnVars>>

ParsedFiles ==
  {[i \in 1..k |-> [filename |-> FileNameOf(kind, i)]] : kind \in FileKinds, k \in 0..MaxFiles}

Next ==
  \/ NoBody
  \/ CallParse
  \/ \E error \in ParserErrors : ParseReject(error)
  \/ ParseResolveBadEnvelope
  \/ \E fs \in ParsedFiles : ParseResolve(fs)
  \/ \E i \in Atts : UploadResolve(i)
  \/ \E i \in Atts : UploadReject(i)
  \/ \E i \in Atts : \E resp \in Responses : ExtractResolve(i, resp)
  \/ \E i \in Atts : ExtractReject(i)
  \/ \E i \in Atts : AppendResolve(i)
  \/ \E i \in Atts : AppendReject(i)
  \/ Finish

Spec == Init /\ [][Next]_vars

\* ------------------------------------------------------------------------
\* sheets.ts: a call of addEventsToSpreadsheet, statement by statement.
\* The first revision takes (events, s3Url), held here as one group; the
\* second takes eventGroups.
\* ------------------------------------------------------------------------
Return == sPc' = "returned" /\ UNCHANGED sThrown
Throw(error) == sPc' = "thrown" /\ sThrown' = error

\* if (!events.length) return   /   if (!eventGroups.length) return
SheetsStart ==
  /\ sPc = "start"
  /\ IF variant = "flat"
     THEN IF Len(sArgs[1].events) = 0
          THEN Return /\ UNCHANGED sIdx
          ELSE sPc' = "check" /\ UNCHANGED <<sIdx, sThrown>>
     ELSE IF Len(sArgs) = 0
          THEN Return /\ UNCHANGED sIdx
          ELSE sPc' = "loop" /\ sIdx' = 1 /\ UNCHANGED sThrown
  /\ UNCHANGED <<variant, sArgs, allFormattedEvents, formatCalls, formatCallsAtCheck,
                 sAppendCalls, sAppendError>>
  /\ UNCHANGED <<envVars, handlerVars, fnVars>>

\* GroupRows without the "|| ''" on the link
GroupRowsRawLink(group, offset) ==
  [k \in 1..Len(group.events) |->
     formatEventForSpreadsheet(group.events[k], group.s3Url, offset)]

\* the rows of one group, each made by formatEventForSpreadsheet
GroupRows(group, offset) ==
  [k \in 1..Len(group.events) |->
     formatEventForSpreadsheet(group.events[k], Or(group.s3Url, <<>>), offset)]

\* one iteration of for (const group of eventGroups)
SheetsLoop ==
  /\ sPc = "loop"
  /\ LET group == sArgs[sIdx]
     IN IF Len(group.events) = 0
        THEN UNCHANGED <<allFormattedEvents, formatCalls>>
        ELSE /\ allFormattedEvents' = allFormattedEvents \o GroupRows(group, tz)
             /\ formatCalls' = formatCalls + Len(group.events)
  /\ IF sIdx < Len(sArgs)
     THEN sIdx' = sIdx + 1 /\ UNCHANGED sPc
     ELSE sPc' = "check" /\ UNCHANGED sIdx
  /\ UNCHANGED <<variant, sArgs, formatCallsAtCheck, sAppendCalls, sAppendError, sThrown>>
  /\ UNCHANGED <<envVars, handlerVars, fnVars>>

\* SheetsCheckGroups without the return on an empty row list
SheetsCheckGroupsNoEmptyReturn ==
  /\ sPc = "check"
  /\ variant = "groups"
  /\ formatCallsAtCheck' = formatCalls
  /\ IF Falsy(spreadsheetId)
     THEN Throw(ConfigError) /\ UNCHANGED sAppendCalls
     ELSE /\ sAppendCalls' = Append(sAppendCalls, allFormattedEvents)
          /\ sPc' = "append"
          /\ UNCHANGED sThrown
  /\ UNCHANGED <<variant, sArgs, sIdx, allFormattedEvents, formatCalls, sAppendError>>
  /\ UNCHANGED <<envVars, handlerVars, fnVars>>

\* second revision, after the loop: return without rows, throw without
\* identifier, otherwise call append with the rows
SheetsCheckGroups ==
  /\ sPc = "check"
  /\ variant = "groups"
  /\ IF Len(allFormattedEvents) = 0
     THEN Return /\ UNCHANGED <<formatCallsAtCheck, sAppendCalls>>
     ELSE /\ formatCallsAtCheck' = formatCalls
          /\ IF Falsy(spreadsheetId)
             THEN Throw(ConfigError) /\ UNCHANGED sAppendCalls
             ELSE /\ sAppendCalls' = Append(sAppendCalls, allFormattedEvents)
                  /\ sPc' = "append"
                  /\ UNCHANGED sThrown
  /\ UNCHANGED <<variant, sArgs, sIdx, allFormattedEvents, formatCalls, sAppendError>>
  /\ UNCHANGED <<envVars, handlerVars, fnVars>>

\* first revision: throw without identifier, otherwise format the events
\* and call append with the rows
SheetsCheckFlat ==
  /\ sPc = "check"
  /\ variant = "flat"
  /\ formatCallsAtCheck' = formatCalls
  /\ IF Falsy(spreadsheetId)
     THEN Throw(ConfigError) /\ UNCHANGED <<allFormattedEvents, formatCalls, sAppendCalls>>
     ELSE /\ allFormattedEvents' = FlatRows(sArgs[1].events, sArgs[1].s3Url, tz)
          /\ formatCalls' = formatCalls + Len(sArgs[1].events)
          /\ sAppendCalls' = Append(sAppendCalls, allFormattedEvents')
          /\ sPc' = "append"
          /\ UNCHANGED sThrown
  /\ UNCHANGED <<variant, sArgs, sIdx, sAppendError>>
  /\ UNCHANGED <<envVars, handlerVars, fnVars>>

\* await sheets.spreadsheets.values.append(...) resolves
SheetsAppendResolve ==
  /\ sPc = "append"
  /\ Return
  /\ UNCHANGED <<variant, sArgs, sIdx, allFormattedEvents, formatCalls,
                 formatCallsAtCheck, sAppendCalls, sAppendError>>
  /\ UNCHANGED <<envVars, handlerVars, fnVars>>

\* SheetsAppendReject throwing a new error in place of the caught one
SheetsAppendRejectWrapped(error) ==
  /\ sPc = "append"
  /\ sAppendError' = error
  /\ Throw([isError |-> TRUE, message |-> "Failed to add events to spreadsheet"])
  /\ UNCHANGED <<variant, sArgs, sIdx, allFormattedEvents, formatCalls,
                 formatCallsAtCheck, sAppendCalls>>
  /\ UNCHANGED <<envVars, handlerVars, fnVars>>

\* the append rejects: catch (error) { console.error(...); throw error }
SheetsAppendReject(error) ==
  /\ sPc = "append"
  /\ sAppendError' = error
  /\ Throw(error)
  /\ UNCHANGED <<variant, sArgs, sIdx, allFormattedEvents, formatCalls,
                 formatCallsAtCheck, sAppendCalls>>
  /\ UNCHANGED <<envVars, handlerVars, fnVars>>

\* a direct call with any arguments, in any environment
InitSheets ==
  /\ spreadsheetId \in SpreadsheetIds
  /\ tz \in TZOffsets
  /\ body = NULL
  /\ HandlerIdle
  /\ variant \in {"flat", "groups"}
  /\ sArgs \in IF variant = "flat" THEN [1..1 -> Groups] ELSE SeqsUpTo(Groups, MaxGroups)
  /\ sPc = "start"
  /\ sIdx = 0
  /\ allFormattedEvents = <<>>
  /\ formatCalls = 0
  /\ formatCallsAtCheck = -1
  /\ sAppendCalls = <<>>
  /\ sAppendError = NoError
  /\ sThrown = NoError
  /\ FnIdle

NextSheets ==
  \/ SheetsStart
  \/ SheetsLoop
  \/ SheetsCheckGroups
  \/ SheetsCheckFlat
  \/ SheetsAppendResolve
  \/ \E error \in AppendErrors : SheetsAppendReject(error)

SpecSheets == InitSheets /\ [][NextSheets]_vars

\* ------------------------------------------------------------------------
\* A direct call of one of the pure functions of sheets.ts and events.ts,
\* as the unit tests make it
\* ------------------------------------------------------------------------

\* the time of day h:m as the extraction step writes it, and with a
\* one-digit hour
Clock(h, m) == padStart2(NumToStr(h)) \o <<":">> \o padStart2(NumToStr(m))
ClockShort(h, m) == NumToStr(h) \o <<":">> \o padStart2(NumToStr(m))

\* the ISO calendar date YYYY-MM-DD, and the date with a time at noon
IsoDate(y, m, d) ==
  [k \in 1..(4 - Len(NumToStr(y))) |-> "0"] \o NumToStr(y) \o <<"-">>
    \o padStart2(NumToStr(m)) \o <<"-">> \o padStart2(NumToStr(d))
IsoNoon(y, m, d) ==
  IsoDate(y, m, d) \o <<"T", "1", "2", ":", "0", "0", ":", "0", "0">>

TimeWords ==
  {<<"9", ":", "3", "0", " ", "a", "m">>,
   <<"7", ":", "0", "0", " ", "p", "m">>,
   <<"1", "0", ":", "0", "0", " ", "A", "M">>,
   <<"3", ":", "3", "0", " ", "P", "m">>,
   <<"1", "2", ":", "0", "0", "A", "M">>,
   <<" ", " ", "1", "4", ":", "0", "0", " ", " ">>,
   <<"n", "o", "t", "-", "a", "-", "t", "i", "m", "e">>, <<"7", "p", "m">>,
   <<"1", "4", ":", "3", "0", ":", "0", "0">>,
   <<"a", "t", " ", "9", ":", "1", "5">>, <<"1", "4", "3", "0">>,
   <<"7", ":", "5">>, <<"9", "9", ":", "9", "9">>,
   <<"2", ":", "3", "0", " ", "p", ".", "m", ".">>}

\* the arguments of formatTime
TimeInputs ==
  {NULL, <<>>} \cup TimeWords
    \cup {Clock(h, m) : h \in 0..25, m \in {0, 30, 45}}
    \cup {ClockShort(h, m) : h \in 0..9, m \in {0, 15}}

DateWords ==
  {<<"n", "o", "t", "-", "a", "-", "d", "a", "t", "e">>,
   <<"i", "n", "v", "a", "l", "i", "d">>, <<"2", "0", "2", "5">>}

\* the arguments of formatDate
DateInputs ==
  {NULL, <<>>} \cup DateWords
    \cup {IsoDate(y, m, d) : y \in {99, 2024, 2025}, m \in {1, 2, 3, 12}, d \in {1, 5, 28, 31}}
    \cup {IsoNoon(y, m, d) : y \in {2024, 2025}, m \in {1, 2, 3, 12}, d \in {1, 15, 29}}

\* the arguments of formatCost
CostWords ==
  {<<"f", "r", "e", "e">>, <<"F", "r", "e", "e">>, <<"F", "R", "E", "E">>,
   <<" ", "f", "r", "e", "e", " ">>, <<"0">>, <<"$", "0">>,
   <<"F", "r", "e", "e", " ", "a", "d", "m", "i", "s", "s", "i", "o", "n">>,
   <<"T", "h", "i", "s", " ", "i", "s", " ", "f", "r", "e", "e">>,
   <<"$", "5", " ", "o", "r", " ", "f", "r", "e", "e">>, <<"$", "2", "0">>,
   <<"$", "1", "5", ".", "0", "0">>, <<"2", "0">>,
   <<"1", "5", ".", "0", "0">>, <<"1", "2", ".", "5">>,
   <<"1", "2", ".", "3", "4", "5">>,
   <<"A", "b", "o", "u", "t", " ", "2", "5", " ", "d", "o", "l", "l", "a", "r", "s">>,
   <<" ", " ", "$", "3", "0", " ", " ">>, <<" ", " ", "3", "0", " ", " ">>,
   <<"T", "B", "D">>, <<"d", "o", "n", "a", "t", "i", "o", "n">>}

CostInputs == {NULL, <<>>} \cup CostWords

\* the events normalizeEvent is given: every combination of absent and
\* present temporal fields
DayInputs == {NULL, <<>>, D0315, D0301}
StartTimeInputs ==
  {NULL, <<>>, <<"7", "p", "m">>, <<"9", ":", "3", "0">>, <<"2", "4", ":", "0", "0">>,
   <<"7", ":", "0", "0", " ", "P", "M">>}
    \cup {Clock(h, m) : h \in 0..23, m \in {0, 30, 59}}
EndTimeInputs == {NULL, <<>>, T2200}

NormalizeInputs ==
  {Ev(<<"N">>, sd, st, ed, et, Cost25) :
     sd \in DayInputs, st \in StartTimeInputs, ed \in DayInputs, et \in EndTimeInputs}

\* the events and source references formatEventForSpreadsheet is given
evNull ==
  [title |-> <<>>, address |-> <<>>, location |-> <<>>, type |-> <<>>,
   startDay |-> NULL, startTime |-> NULL, description |-> <<>>, cost |-> NULL,
   endDay |-> NULL, endTime |-> NULL]

RowEvents ==
  {evA, evB, evC, evNull, [evC EXCEPT !.cost = NULL, !.type = <<"M", "u", "s", "i", "c">>],
   [evB EXCEPT !.startDay = D0315, !.startTime = <<"9", ":", "3", "0", " ", "a", "m">>]}
RowRefs == {<<>>, Ref1, uploadToS3Url(<<"f", "1">>)}

\* the call has been made and the function has not run yet
\* the events extracted from one attachment
AttachmentEvents == SeqsUpTo({evA, evB, evBad}, MaxEvents)

\* the events of the model's JSON: any two days, null and '' included
ModelEvents ==
  {Ev(<<"M">>, sd, T1900, ed, NULL, Cost25) : sd \in DayInputs, ed \in DayInputs}

ModelResponses == SeqsUpTo(ModelEvents, MaxEvents)

InitFn ==
  /\ spreadsheetId = UNDEFINED
  /\ tz \in TZOffsets
  /\ body = NULL
  /\ HandlerIdle
  /\ SheetsIdle
  /\ fnPc = "called"
  /\ fnRet = NoArg
  /\ fnPrev = NoArg
  /\ \/ fnName = "formatDate" /\ fnArg \in [dateString : DateInputs]
     \/ fnName = "formatTime" /\ fnArg \in [timeString : TimeInputs]
     \/ fnName = "formatCost" /\ fnArg \in [costString : CostInputs]
     \/ fnName = "normalizeEvent" /\ fnArg \in [event : NormalizeInputs]
     \/ fnName = "formatEventForSpreadsheet" /\ fnArg \in [event : RowEvents, s3Url : RowRefs]
     \/ fnName = "normalizeEach" /\ fnArg \in [events : AttachmentEvents]
     \/ fnName = "extractEvents" /\ fnArg \in [response : ModelResponses]

FnReturn(value) ==
  /\ fnRet' = value
  /\ fnPc' = "returned"
  /\ UNCHANGED <<fnName, fnArg, fnPrev>>
  /\ UNCHANGED <<envVars, handlerVars, sheetsVars>>

CallFormatDate ==
  /\ fnPc = "called" /\ fnName = "formatDate"
  /\ FnReturn(formatDate(fnArg.dateString, tz))

CallFormatTime ==
  /\ fnPc = "called" /\ fnName = "formatTime"
  /\ FnReturn(formatTime(fnArg.timeString))

CallFormatCost ==
  /\ fnPc = "called" /\ fnName = "formatCost"
  /\ FnReturn(formatCost(fnArg.costString))

CallNormalizeEvent ==
  /\ fnPc = "called" /\ fnName = "normalizeEvent"
  /\ FnReturn(normalizeEvent(fnArg.event))

\* normalizeEvent called on the event it returned
CallNormalizeEventAgain ==
  /\ fnPc = "returned" /\ fnName = "normalizeEvent"
  /\ fnPrev' = fnRet
  /\ fnRet' = normalizeEvent(fnRet)
  /\ fnPc' = "reapplied"
  /\ UNCHANGED <<fnName, fnArg>>
  /\ UNCHANGED <<envVars, handlerVars, sheetsVars>>

CallFormatEventForSpreadsheet ==
  /\ fnPc = "called" /\ fnName = "formatEventForSpreadsheet"
  /\ FnReturn(formatEventForSpreadsheet(fnArg.event, fnArg.s3Url, tz))

\* the handler's loop over the events of one attachment
CallNormalizeEach ==
  /\ fnPc = "called" /\ fnName = "normalizeEach"
  /\ FnReturn(NormalizeEach(fnArg.events))

\* extractEvents, from the parsed content of the model's answer on
CallExtractEvents ==
  /\ fnPc = "called" /\ fnName = "extractEvents"
  /\ FnReturn(extractEvents(fnArg.response))

NextFn ==
  \/ CallFormatDate
  \/ CallFormatTime
  \/ CallFormatCost
  \/ CallNormalizeEvent
  \/ CallNormalizeEventAgain
  \/ CallFormatEventForSpreadsheet
  \/ CallNormalizeEach
  \/ CallExtractEvents

SpecFn == InitFn /\ [][NextFn]_vars

\* ------------------------------------------------------------------------
\* Properties
\* ------------------------------------------------------------------------
Range(f) == {f[k] : k \in DOMAIN f}

\* attachment i's extraction succeeded with at least one event
Yielded(i) == extraction[i].st = "ok" /\ Len(extraction[i].events) > 0

CallsOf(i) == {k \in 1..Len(addCalls) : addCalls[k].att = i}
AppendsOf(i) == {k \in 1..Len(appendCalls) : appendCalls[k].att = i}

Configured == ~Falsy(spreadsheetId)

\* number of events in the groups before group g
RECURSIVE EventsBefore(_, _)
EventsBefore(args, g) ==
  IF g <= 1 THEN 0 ELSE EventsBefore(args, g - 1) + Len(args[g - 1].events)

TotalEvents(args) == EventsBefore(args, Len(args) + 1)

\* C1: during one request the destination append (addEventsToSpreadsheet,
\* and the append call behind it) is invoked at most once: exactly once when
\* some attachment yielded an event, not at all when none did.
C1_AtMostOneAppendPerRequest ==
  /\ Len(addCalls) <= 1
  /\ Len(appendCalls) <= 1
  /\ pc = "done" => (Len(addCalls) = 1 <=> \E i \in Atts : Yielded(i))

\* C2: the append call of addEventsToSpreadsheet(eventGroups) receives one
\* row per event and nothing else: the rows of a group follow those of the
\* groups before it, keep the group's event order, and carry the group's
\* own source reference as link ('' for a group without one); groups
\* without events contribute nothing; there is one append call.
C2_OneRowPerEventInGroupOrder ==
  /\ Len(sAppendCalls) <= 1
  /\ (Configured /\ TotalEvents(sArgs) > 0 /\ sPc \in {"append", "returned", "thrown"})
       => Len(sAppendCalls) = 1
  /\ \A c \in 1..Len(sAppendCalls) :
       /\ Len(sAppendCalls[c]) = TotalEvents(sArgs)
       /\ \A g \in 1..Len(sArgs) : \A k \in 1..Len(sArgs[g].events) :
            LET row == sAppendCalls[c][EventsBefore(sArgs, g) + k]
                ref == sArgs[g].s3Url
            IN /\ row = formatEventForSpreadsheet(sArgs[g].events[k], Or(ref, <<>>), tz)
               /\ row[2] = sArgs[g].events[k].title
               /\ row[10] = IF ref = UNDEFINED THEN <<>> ELSE ref

C2_Witness ==
  /\ variant = "groups"
  /\ Len(sArgs) = 3
  /\ sArgs[1] = [events |-> <<evA, evB>>, s3Url |-> Ref1]
  /\ sArgs[2].events = <<>>
  /\ sArgs[3] = [events |-> <<evC>>, s3Url |-> Ref2]
  /\ sPc = "returned"
  /\ Len(sAppendCalls) = 1
  /\ Len(sAppendCalls[1]) = 3

\* C3: addEventsToSpreadsheet called with no group, or with groups that
\* hold no event, returns without an error and makes no append call.
C3_NoEventsNoAppend ==
  TotalEvents(sArgs) = 0 =>
    /\ sAppendCalls = <<>>
    /\ sPc \in {"idle", "start", "loop", "check", "returned"}
    /\ sThrown = NoError

C3_Witness ==
  /\ variant = "groups"
  /\ Len(sArgs) = 2
  /\ TotalEvents(sArgs) = 0
  /\ sPc = "returned"

\* C4: without a destination identifier a call with at least one event
\* fails with the configuration error, makes no append call, and has
\* formatted no event into a row when the identifier is checked.
C4_IdentifierCheckedBeforeFormatting ==
  (~Configured /\ TotalEvents(sArgs) > 0) =>
    /\ sAppendCalls = <<>>
    /\ sPc \in {"returned", "thrown"} => (sPc = "thrown" /\ sThrown = ConfigError)
    /\ formatCallsAtCheck \in {-1, 0}

\* C5: when the append call fails, addEventsToSpreadsheet fails with that
\* same error and has called append once.
C5_AppendErrorPropagatesUnchanged ==
  sAppendError # NoError =>
    /\ sPc = "thrown"
    /\ sThrown = sAppendError
    /\ Len(sAppendCalls) = 1

C5_Witness ==
  /\ variant = "groups"
  /\ sAppendError \in AppendErrors
  /\ sPc = "thrown"

\* C6: when the extraction of some attachments fails, the request still
\* ends with status 200 after every extraction has settled; every
\* attachment that yielded events had exactly those events handed to
\* addEventsToSpreadsheet (and on to the append call when the destination is
\* configured), and the failed attachments contributed no call and no row.
C6_ExtractionFailureIsolated ==
  (pc = "done" /\ \E i \in Atts : extraction[i].st = "failed") =>
    /\ response.statusCode = 200
    /\ \A j \in Atts :
         /\ extraction[j].st \in {"ok", "failed"}
         /\ task[j] = "returned"
         /\ Yielded(j) =>
              /\ Cardinality(CallsOf(j)) = 1
              /\ \A k \in CallsOf(j) : addCalls[k].arg1 = extraction[j].events
              /\ Configured =>
                   /\ Cardinality(AppendsOf(j)) = 1
                   /\ \A k \in AppendsOf(j) :
                        /\ Len(appendCalls[k].rows) = Len(extraction[j].events)
                        /\ \A n \in 1..Len(extraction[j].events) :
                             appendCalls[k].rows[n][2] = extraction[j].events[n].title
         /\ extraction[j].st = "failed" => (CallsOf(j) = {} /\ AppendsOf(j) = {})

C6_Witness ==
  /\ pc = "done"
  /\ Len(files) = 2
  /\ extraction[1].st = "failed"
  /\ Yielded(2)
  /\ AppendsOf(2) # {}

\* C7: a failed upload never reaches the caller: the attachment keeps no
\* URL, its extraction and append go on, every row built for it has the
\* empty string as link, and the request ends with status 200.
C7_UploadFailureEmptyLink ==
  \A i \in Atts : upload[i] = "rejected" =>
    /\ attachments[i].s3Url = UNDEFINED
    /\ \A k \in CallsOf(i) : addCalls[k].arg2 = UNDEFINED
    /\ \A k \in AppendsOf(i) : \A n \in 1..Len(appendCalls[k].rows) :
         appendCalls[k].rows[n][10] = <<>>
    /\ pc = "done" =>
         /\ response.statusCode = 200
         /\ extraction[i].st \in {"ok", "failed"}
         /\ Yielded(i) => (CallsOf(i) # {} /\ (Configured => AppendsOf(i) # {}))

C7_Witness ==
  \E i \in Atts :
    /\ upload[i] = "rejected"
    /\ addOutcome[i] = "ok"
    /\ AppendsOf(i) # {}
    /\ pc = "done"

\* C8: what parseSendgridInbound hands to addEventsToSpreadsheet is a list
\* of groups {events, s3Url} whose events are normalizeEvent applied to the
\* extracted events, so that no event with a start time goes on without an
\* end time.
IsGroupList(arg) == \A j \in 1..Len(arg) : DOMAIN arg[j] = {"events", "s3Url"}

HandedEvents(arg) ==
  IF IsGroupList(arg) THEN UNION {Range(arg[j].events) : j \in 1..Len(arg)}
  ELSE Range(arg)

C8_NormalizedGroupsHandedOver ==
  \A c \in 1..Len(addCalls) :
    /\ \A e \in HandedEvents(addCalls[c].arg1) :
         /\ \E raw \in Range(extraction[addCalls[c].att].events) : e = normalizeEvent(raw)
         /\ ~Falsy(e.startTime) => ~Falsy(e.endTime)
    /\ IsGroupList(addCalls[c].arg1)

\* C9: a request whose body is null or '' is answered 400 'No body
\* provided' without any call of the parser, the upload, the extraction or
\* the append.
C9_NoBodyIs400 ==
  Falsy(body) =>
    /\ pc \in {"start", "done"}
    /\ pc = "done" =>
         response = [statusCode |-> 400, body |-> {<<"error", "No body provided">>}]
    /\ parseCalls = 0
    /\ uploadCalls = <<>>
    /\ extraction = <<>>
    /\ addCalls = <<>>
    /\ appendCalls = <<>>

C9_Witness == body = <<>> /\ pc = "done" /\ response.statusCode = 400

\* C10: when the multipart parser fails the handler answers 500 'Failed to
\* parse inbound email', with the message of a thrown Error as details and
\* 'Unknown error' for any other thrown value, and makes no upload,
\* extraction or append call.
C10_ParserFailureIs500 ==
  parsed.st = "rejected" =>
    /\ pc = "done"
    /\ response =
         [statusCode |-> 500,
          body |-> {<<"error", "Failed to parse inbound email">>,
                    <<"details", IF parsed.error.isError THEN parsed.error.message
                                 ELSE "Unknown error">>}]
    /\ uploadCalls = <<>>
    /\ extraction = <<>>
    /\ addCalls = <<>>
    /\ appendCalls = <<>>

C10_Witness ==
  /\ parsed.st = "rejected"
  /\ ~parsed.error.isError
  /\ response.statusCode = 500

\* C11: when the parsed email has no attachments the handler answers 200
\* with the message 'No attachments found' and calls neither the upload, the
\* extraction nor addEventsToSpreadsheet.
C11_NoAttachmentsMessage ==
  (pc = "done" /\ parsed.envelope = "valid" /\ files = <<>>) =>
    /\ response = [statusCode |-> 200, body |-> {<<"message", "No attachments found">>}]
    /\ uploadCalls = <<>>
    /\ extraction = <<>>
    /\ addCalls = <<>>
    /\ appendCalls = <<>>

\* a function of SpecFn has returned
Returned(name) == fnName = name /\ fnPc = "returned"

\* position of the first H:MM or HH:MM in t, 0 when there is none
FirstClockAt(t) ==
  LET hits == {p \in 1..Len(t) : TimeMatchAt(t, p) > 0}
  IN IF hits = {} THEN 0 ELSE CHOOSE j \in hits : \A i \in hits : j <= i

\* r matches ^\d{1,2}:\d{2} (AM|PM)$
IsTwelveHourShape(r) ==
  LET n == TimeMatchAt(r, 1)
  IN /\ n > 0
     /\ Len(r) = n + 6
     /\ r[n + 4] = " "
     /\ r[n + 5] \in {"A", "P"}
     /\ r[n + 6] = "M"

\* the reference of C12; "matches" is read as the code's regular
\* expressions read it: the pattern occurs somewhere in the trimmed input
RefFormatTime(s) ==
  IF s = NULL THEN <<>>
  ELSE LET t == trim(s)
           p == FirstClockAt(t)
           n == TimeMatchAt(t, p)
           h == StrToNum(SubSeq(t, p, p + n - 1))
           mm == SubSeq(t, p + n + 1, p + n + 2)
           h12 == IF h = 0 THEN 12 ELSE IF h \in 13..23 THEN h - 12 ELSE h
       IN IF \E q \in 1..Len(t) : AmPmMatchAt(t, q) THEN toUpperCase(t)
          ELSE IF p > 0 /\ h \in 0..23
          THEN NumToStr(h12) \o <<":">> \o mm \o <<" ">>
                 \o (IF h < 12 THEN <<"A", "M">> ELSE <<"P", "M">>)
          ELSE t

\* C12: formatTime agrees with the reference on every input: '' for null,
\* the trimmed input in upper case for a 12-hour time with AM or PM, the
\* 12-hour form of a 24-hour time with hour 0..23 (a result of the shape
\* H:MM AM or H:MM PM), and the trimmed input for anything else.
C12_FormatTimeAgreesWithReference ==
  Returned("formatTime") =>
    /\ fnRet = RefFormatTime(fnArg.timeString)
    /\ IsTwelveHourShape(RefFormatTime(fnArg.timeString)) => IsTwelveHourShape(fnRet)

\* r matches ^\d{2}/\d{2}/\d{4}$
IsMMDDYYYY(r) ==
  /\ Len(r) = 10
  /\ \A k \in {1, 2, 4, 5, 7, 8, 9, 10} : IsDigit(r[k])
  /\ r[3] = "/"
  /\ r[6] = "/"

\* C13: formatDate returns '' for null, the input itself when the input is
\* not a date, and a zero-padded MM/DD/YYYY for every input that is a date.
C13_FormatDateShape ==
  Returned("formatDate") =>
    LET s == fnArg.dateString
    IN IF s = NULL THEN fnRet = <<>>
       ELSE IF NewDateLocalDay(s, tz) = InvalidDate THEN fnRet = s
       ELSE IsMMDDYYYY(fnRet)

Unknown == <<"U", "n", "k", "n", "o", "w", "n">>

\* C14: formatCost(null) is the unknown-cost marker 'Unknown', and so is
\* the cost column of the row of an event whose cost is null.
C14_NullCostIsUnknown ==
  /\ (Returned("formatCost") /\ fnArg.costString = NULL) => fnRet = Unknown
  /\ (Returned("formatEventForSpreadsheet") /\ fnArg.event.cost = NULL) =>
       fnRet[9] = Unknown

\* s contains w
Contains(s, w) ==
  \E p \in 1..(Len(s) - Len(w) + 1) : SubSeq(s, p, p + Len(w) - 1) = w

\* the inputs C15 calls free
IsFreeCase(s) ==
  \/ Contains(toLowerCase(s), <<"f", "r", "e", "e">>)
  \/ s = <<"0">>
  \/ s = <<"$", "0">>

\* C15: formatCost returns 'Free' for every string that contains 'free' in
\* any letter case, or is '0' or '$0', whatever else the string holds.
C15_FreeWhereverItOccurs ==
  (Returned("formatCost") /\ fnArg.costString # NULL /\ IsFreeCase(fnArg.costString)) =>
    fnRet = Free

\* the first substring of s of the form digits(.digits)?, <<>> when s has
\* no digit
RefNumber(s) ==
  LET ds == {k \in 1..Len(s) : IsDigit(s[k])}
  IN IF ds = {} THEN <<>>
     ELSE LET p == CHOOSE j \in ds : \A i \in ds : j <= i
              intEnds == {k \in p..Len(s) : \A i \in p..k : IsDigit(s[i])}
              r == CHOOSE j \in intEnds : \A i \in intEnds : j >= i
              fracEnds == {k \in (r + 2)..Len(s) : \A i \in (r + 2)..k : IsDigit(s[i])}
          IN IF r + 1 <= Len(s) /\ s[r + 1] = "." /\ fracEnds # {}
             THEN SubSeq(s, p, CHOOSE j \in fracEnds : \A i \in fracEnds : j >= i)
             ELSE SubSeq(s, p, r)

\* C16: for a string that is not a free case, formatCost returns the string
\* itself when it starts with '$' (surrounding whitespace ignored), else '$'
\* and the first number in it with its whole fractional part, else the
\* string itself when it holds no number.
C16_DollarAndNumber ==
  (Returned("formatCost") /\ fnArg.costString # NULL /\ ~IsFreeCase(fnArg.costString)) =>
    LET s == fnArg.costString
    IN IF startsWith(trim(s), "$") THEN fnRet = s
       ELSE IF RefNumber(s) # <<>> THEN fnRet = <<"$">> \o RefNumber(s)
       ELSE fnRet = s

\* n in 0..99 written with two digits
TwoDigits(n) == <<Digits[(n \div 10) + 1], Digits[(n % 10) + 1]>>

\* st is a 24-hour HH:mm with HH in 0..23 and mm in 0..59
IsHHmm(st) ==
  /\ Len(st) = 5
  /\ \A k \in {1, 2, 4, 5} : IsDigit(st[k])
  /\ st[3] = ":"
  /\ 10 * DigitVal(st[1]) + DigitVal(st[2]) <= 23
  /\ 10 * DigitVal(st[4]) + DigitVal(st[5]) <= 59

\* C17: for an event without endTime whose startTime is HH:mm, the endTime
\* normalizeEvent returns is ((HH + 3) mod 24):mm in two-digit HH:mm, and
\* the startTime is returned unchanged.
C17_EndTimeThreeHoursLater ==
  (Returned("normalizeEvent") /\ Falsy(fnArg.event.endTime)
     /\ IsHHmm(fnArg.event.startTime)) =>
    LET st == fnArg.event.startTime
        hh == 10 * DigitVal(st[1]) + DigitVal(st[2])
    IN /\ fnRet.endTime = TwoDigits((hh + 3) % 24) \o <<":">> \o SubSeq(st, 4, 5)
       /\ fnRet.startTime = st

C17_Witness ==
  /\ Returned("normalizeEvent")
  /\ fnArg.event.startTime = <<"2", "3", ":", "0", "0">>
  /\ fnArg.event.endTime = NULL
  /\ fnRet.endTime = <<"0", "2", ":", "0", "0">>

\* C18 as stated: every temporal field that is not null is returned
\* unchanged, a null field is filled from its sibling, a supplied endTime
\* is returned verbatim, and two null siblings stay null.
C18_FillOnlyWhenNull ==
  Returned("normalizeEvent") =>
    LET e == fnArg.event
    IN /\ fnRet.startDay = (IF e.startDay = NULL THEN e.endDay ELSE e.startDay)
       /\ fnRet.endDay = (IF e.endDay = NULL THEN e.startDay ELSE e.endDay)
       /\ fnRet.startTime = (IF e.startTime = NULL THEN e.endTime ELSE e.startTime)
       /\ e.endTime # NULL => fnRet.endTime = e.endTime
       /\ (e.startTime = NULL /\ e.endTime = NULL) => fnRet.endTime = NULL

\* C18, amended: a field counts as absent when it is null or the empty
\* string.  Every temporal field that is a non-empty string is returned
\* unchanged; an absent startDay, endDay or startTime is replaced by its
\* sibling; and when both days or both times are absent they stay absent.
C18_FillOnlyWhenAbsent ==
  Returned("normalizeEvent") =>
    LET e == fnArg.event
    IN /\ fnRet.startDay = (IF Falsy(e.startDay) THEN e.endDay ELSE e.startDay)
       /\ fnRet.endDay = (IF Falsy(e.endDay) THEN e.startDay ELSE e.endDay)
       /\ fnRet.startTime = (IF Falsy(e.startTime) THEN e.endTime ELSE e.startTime)
       /\ ~Falsy(e.endTime) => fnRet.endTime = e.endTime
       /\ (Falsy(e.startDay) /\ Falsy(e.endDay)) =>
            (Falsy(fnRet.startDay) /\ Falsy(fnRet.endDay))
       /\ (Falsy(e.startTime) /\ Falsy(e.endTime)) =>
            (Falsy(fnRet.startTime) /\ Falsy(fnRet.endTime))

C18_Witness ==
  /\ fnName = "normalizeEvent"
  /\ fnPc = "returned"
  /\ fnArg.event.startDay = <<>>
  /\ fnArg.event.endDay = D0301
  /\ fnRet.startDay = D0301
  /\ fnArg.event.startTime = NULL
  /\ fnArg.event.endTime = T2200
  /\ fnRet.startTime = T2200

\* C19 as stated: normalizeEvent applied to its own result returns that
\* result, field by field, for every event.
C19_NormalizeIdempotent ==
  (fnName = "normalizeEvent" /\ fnPc = "reapplied") => fnRet = fnPrev

\* one of the two days is null and the other the empty string
MixedAbsentDays(event) == {event.startDay, event.endDay} = {NULL, <<>>}

\* C19, amended: normalizeEvent applied to its own result returns that
\* result, field by field, for every event except those whose startDay and
\* endDay are one null and the other the empty string.
C19_NormalizeIdempotentUnlessMixed ==
  (fnName = "normalizeEvent" /\ fnPc = "reapplied" /\ ~MixedAbsentDays(fnArg.event)) =>
    fnRet = fnPrev

\* the end time came from the 3-hour rule and the second call kept it
C19_Witness ==
  /\ fnName = "normalizeEvent"
  /\ fnPc = "reapplied"
  /\ fnArg.event.startDay = NULL
  /\ fnArg.event.endDay = D0301
  /\ fnArg.event.startTime = <<"2", "3", ":", "0", "0">>
  /\ fnArg.event.endTime = NULL
  /\ fnPrev.endTime = <<"0", "2", ":", "0", "0">>
  /\ fnRet = fnPrev

\* a pass-through column: the field, '' when it is absent
PassThrough(field) == IF field \in {NULL, UNDEFINED, <<>>} THEN <<>> ELSE field

\* C20: formatEventForSpreadsheet returns, for every event and source
\* reference, one row of ten columns in the order date, eventName, type,
\* startTime, endTime, location, address, description, cost, link: the date
\* is formatDate of startDay, the times are formatTime of the event's
\* times, the cost is formatCost of the cost, the five text fields pass
\* through with '' when absent, and the link is the source reference as
\* given.
C20_RowOfTenColumns ==
  Returned("formatEventForSpreadsheet") =>
    LET e == fnArg.event
        row == fnRet
    IN /\ Len(row) = 10
       /\ row[1] = formatDate(e.startDay, tz)
       /\ row[2] = PassThrough(e.title)
       /\ row[3] = PassThrough(e.type)
       /\ row[4] = formatTime(e.startTime)
       /\ row[5] = formatTime(e.endTime)
       /\ row[6] = PassThrough(e.location)
       /\ row[7] = PassThrough(e.address)
       /\ row[8] = PassThrough(e.description)
       /\ row[9] = formatCost(e.cost)
       /\ row[10] = fnArg.s3Url
       /\ (e = evC /\ tz = 0) =>
            row = << <<"0", "3", "/", "0", "1", "/", "2", "0", "2", "5">>, <<"C">>, <<>>,
                     <<"7", ":", "0", "0", " ", "P", "M">>,
                     <<"1", "0", ":", "0", "0", " ", "P", "M">>,
                     <<"S", "F">>, <<"1", " ", "S", "t">>, <<"x">>,
                     <<"$", "2", "0">>, fnArg.s3Url >>

C20_Witness ==
  /\ Returned("formatEventForSpreadsheet")
  /\ fnArg.event = evC
  /\ fnArg.s3Url = Ref1
  /\ tz = 0
  /\ fnRet[1] = <<"0", "3", "/", "0", "1", "/", "2", "0", "2", "5">>
  /\ fnRet[10] = Ref1

\* ------------------------------------------------------------------------
\* Upload and extraction of one attachment (inbound.ts 78-102)
\* ------------------------------------------------------------------------
\* the link column of a row
LinkOf(row) == row[10]

\* the rows of the append calls made for attachment i
RowsOfAttachment(i) ==
  UNION {{appendCalls[c].rows[r] : r \in 1..Len(appendCalls[c].rows)} :
           c \in {k \in 1..Len(appendCalls) : appendCalls[k].att = i}}

UrlOfAttachment(i) == uploadToS3Url(attachments[i].filename)

C21_State ==
  pc \in {"tasks", "done"} =>
    \A i \in Atts :
      /\ task[i] \in {"extracting", "appending", "returned"}
      /\ Cardinality({k \in 1..Len(uploadCalls) : uploadCalls[k].att = i}) = 1
      /\ \A row \in RowsOfAttachment(i) : LinkOf(row) \in {<<>>, UrlOfAttachment(i)}

\* the step in which the rows of attachment i are built
C21_Step ==
  \A i \in Atts :
    (task[i] = "extracting" /\ task'[i] = "appending" /\ upload[i] = "resolved")
      => \A row \in RowsOfAttachment(i)' : LinkOf(row) = UrlOfAttachment(i)

\* C21: in every interleaving of an attachment's upload and extraction, the
\* extraction has started without waiting for the upload, the upload is
\* attempted exactly once, the link of every row of the attachment is ''
\* or the URL of that attachment's own upload, and the link is that URL
\* whenever the upload had succeeded when the rows were built.
C21_UploadAndExtraction == []C21_State /\ [][C21_Step]_vars

\* an attachment whose upload succeeded first has its rows in the sheet with
\* the URL, and another attachment's extraction settled with its upload
\* still pending
C21_Witness ==
  \E i \in Atts, j \in Atts :
    /\ upload[i] = "resolved" /\ addOutcome[i] = "ok"
    /\ \E row \in RowsOfAttachment(i) : LinkOf(row) = UrlOfAttachment(i)
    /\ upload[j] = "pending" /\ extraction[j].st = "ok" /\ task[j] = "returned"

\* ------------------------------------------------------------------------
\* Order of the rows of a request (inbound.ts 76-111)
\* ------------------------------------------------------------------------
RECURSIVE RowsInAttachmentOrder(_)
\* the rows written for attachments 1..n, attachment after attachment
RowsInAttachmentOrder(n) ==
  IF n = 0 THEN <<>>
  ELSE RowsInAttachmentOrder(n - 1) \o
       (IF addOutcome[n] = "ok" THEN PendingRows(n) ELSE <<>>)

\* C22: whatever the order in which the extractions complete, the rows of a
\* request stand in the spreadsheet in the order of the attachments.
C22_RowsInAttachmentOrder ==
  pc = "done" => sheet = RowsInAttachmentOrder(Len(files))

\* C23: no append call is made before the extraction of every attachment
\* has settled, and the handler has not returned while an append call is
\* still outstanding.
C23_AppendAfterAllExtractions ==
  /\ Len(appendCalls) > 0 => \A i \in Atts : extraction[i].st \in {"ok", "failed"}
  /\ pc = "done" => \A i \in Atts : task[i] # "appending"

UnparseableStart(event) ==
  /\ Falsy(event.endTime)
  /\ ~Falsy(event.startTime)
  /\ ~parseHHmm(event.startTime).ok

IsEvent(x) == DOMAIN x = DOMAIN evA

OtherFields == {"title", "address", "location", "type", "description", "cost"}

C26_State ==
  Returned("normalizeEvent") =>
    /\ DOMAIN fnRet = DOMAIN fnArg.event
    /\ \A f \in OtherFields : fnRet[f] = fnArg.event[f]
    /\ (\A f \in {"startDay", "startTime", "endDay", "endTime"} : ~Falsy(fnArg.event[f]))
         => fnRet = fnArg.event

\* C26: normalizeEvent changes nothing but the four temporal fields: title,
\* address, location, type, description and cost of the result are those of
\* the input, the event passed in is the same after the call as before,
\* and an event with all four temporal fields present is returned equal
\* to the input.
C26_OnlyTemporalFieldsChange ==
  []C26_State /\ [][fnName = "normalizeEvent" => fnArg' = fnArg]_vars

\* an event without start day and end time came back with both filled and
\* with its other fields as they were
C26_Witness ==
  /\ Returned("normalizeEvent")
  /\ fnArg.event.startDay = NULL /\ fnArg.event.endDay = D0301
  /\ fnArg.event.startTime = T1900 /\ fnArg.event.endTime = NULL
  /\ fnRet.startDay = D0301 /\ fnRet.endTime = T2200
  /\ fnRet.cost = Cost25 /\ fnRet.title = fnArg.event.title
\* ------------------------------------------------------------------------
\* The end day of the events extractEvents returns (openai.ts 44-53)
\* ------------------------------------------------------------------------
\* C27 as stated: the events returned are those of the model's response, as
\* many and in the same order, with every field as given except endDay,
\* which is the model's endDay unless that was null and the startDay when
\* it was null (null when both were null).
C27_EndDayUnlessNull ==
  Returned("extractEvents") =>
    LET r == fnArg.response
    IN /\ Len(fnRet) = Len(r)
       /\ \A k \in 1..Len(r) :
            fnRet[k] = [r[k] EXCEPT !.endDay = IF r[k].endDay # NULL
                                               THEN r[k].endDay
                                               ELSE r[k].startDay]

\* C27, amended: a day counts as absent when it is null or the empty
\* string.  The events returned are those of the model's response, as many
\* and in the same order, with every field as given except endDay, which is
\* the model's endDay when that was present, the startDay when endDay was
\* absent and startDay present, and absent when both were absent.
C27_EndDayUnlessAbsent ==
  Returned("extractEvents") =>
    LET r == fnArg.response
    IN /\ Len(fnRet) = Len(r)
       /\ \A k \in 1..Len(r) :
            /\ [fnRet[k] EXCEPT !.endDay = NULL] = [r[k] EXCEPT !.endDay = NULL]
            /\ ~Falsy(r[k].endDay) => fnRet[k].endDay = r[k].endDay
            /\ (Falsy(r[k].endDay) /\ ~Falsy(r[k].startDay)) =>
                 fnRet[k].endDay = r[k].startDay
            /\ (Falsy(r[k].endDay) /\ Falsy(r[k].startDay)) => Falsy(fnRet[k].endDay)

\* of two events the first got its end day from its start day and the
\* second kept the one it had
C27_Witness ==
  /\ Returned("extractEvents")
  /\ Len(fnArg.response) = 2
  /\ fnArg.response[1].startDay = D0315 /\ fnArg.response[1].endDay = NULL
  /\ fnArg.response[2].startDay = D0315 /\ fnArg.response[2].endDay = D0301
  /\ fnRet[1].endDay = D0315
  /\ fnRet[2].endDay = D0301

\* ------------------------------------------------------------------------
\* A failed append (inbound.ts 95-118)
\* ------------------------------------------------------------------------
\* C28: when the append call or the check of the spreadsheet identifier
\* fails, addEventsToSpreadsheet is not called again for that attachment,
\* the other attachments are processed to the end, and the response is not
\* the 200 success response.
C28_AppendFailureReported ==
  /\ \A i \in Atts :
       /\ Cardinality({k \in 1..Len(addCalls) : addCalls[k].att = i}) <= 1
       /\ Cardinality({k \in 1..Len(appendCalls) : appendCalls[k].att = i}) <= 1
  /\ (pc = "done" /\ \E i \in Atts : addOutcome[i] \in {"configError", "appendError"}) =>
       /\ \A j \in Atts : extraction[j].st \in {"ok", "failed"} /\ task[j] = "returned"
       /\ response.statusCode # 200

\* ------------------------------------------------------------------------
\* Storage keys of the attachments of a request (s3.ts 8-25)
\* ------------------------------------------------------------------------
\* C29: two distinct attachments of a request are stored under distinct
\* storage keys, whatever their file names, so that the link of a row leads
\* to the attachment the row's event came from.
C29_DistinctStorageKeys ==
  \A a \in 1..Len(uploadCalls), b \in 1..Len(uploadCalls) :
    uploadCalls[a].att # uploadCalls[b].att => uploadCalls[a].key # uploadCalls[b].key

\* ------------------------------------------------------------------------
\* formatDate and the timezone of the process (sheets.ts 261-277)
\* ------------------------------------------------------------------------
\* s is YYYY-MM-DD and names a day of the calendar
IsCalendarDate(s) ==
  /\ Len(s) = 10
  /\ IsoDateAt(s)
  /\ StrToNum(SubSeq(s, 9, 10)) <=
       DaysInMonth(StrToNum(SubSeq(s, 1, 4)), StrToNum(SubSeq(s, 6, 7)))

\* C30: for every ISO calendar date YYYY-MM-DD formatDate returns the same
\* day as MM/DD/YYYY, whatever the offset of the process's local time.
C30_SameCalendarDay ==
  (Returned("formatDate") /\ IsCalendarDate(fnArg.dateString)) =>
    LET s == fnArg.dateString
    IN fnRet = SubSeq(s, 6, 7) \o <<"/">> \o SubSeq(s, 9, 10) \o <<"/">> \o SubSeq(s, 1, 4)

=============================================================================
